---------------------------- MODULE Spec2Model ----------------------------
(***************************************************************************)
(* Model of pack_kernel.py, the Neutron bootloader kernel image packer:    *)
(* crc32_ieee, pack and verify, called by independent callers.             *)
(*                                                                         *)
(* Representation of values                                                *)
(*   - a byte string (Python bytes) is a sequence over 0..255;             *)
(*   - a Python int that may not fit TLC's 32-bit signed integers (header  *)
(*     words, payload lengths) is a record [hi, lo] standing for           *)
(*     hi * 65536 + lo with lo in 0..65535 and hi any integer, so that     *)
(*     0xFFFFFFFF, 2^32 and -1 are all exact;                              *)
(*   - a str is a sequence of Unicode code points;                         *)
(*   - pack's payload argument is a record [data, blocks]: the bytes data  *)
(*     followed by blocks * 65536 zero bytes, so that a payload longer     *)
(*     than 2^32 - 1 bytes has its exact length without being enumerated.  *)
(***************************************************************************)
EXTENDS Integers, Sequences, FiniteSets, TLC

\* ------------------------------------------------------------ Python ints

Num(h, l) == [hi |-> h, lo |-> l]

NumOfNat(n) == Num(n \div 65536, n % 65536)

\* 0 <= v <= 0xFFFFFFFF, the range struct's 'I' format accepts.
IsU32(v) == v.hi >= 0 /\ v.hi <= 65535

\* ------------------------------------------------------------- constants

KERNEL_MAGIC == Num(20043, 21070)

KERNEL_HEADER_SIZE == 64

DEFAULT_LOAD_ADDR == Num(32, 0)

DEFAULT_ENTRY_ADDR == Num(32, 0)

DEFAULT_VERSION == Num(1, 0)

\* ------------------------------------------------------ bit operations

RECURSIVE XorBits(_, _, _)
XorBits(a, b, n) ==
    IF n = 0 THEN 0
    ELSE ((a + b) % 2) + 2 * XorBits(a \div 2, b \div 2, n - 1)

\* a ^ b on 32-bit values.
Xor32(a, b) == Num(XorBits(a.hi, b.hi, 16), XorBits(a.lo, b.lo, 16))

\* a >> 1 on a 32-bit value.
Shr1(a) == Num(a.hi \div 2, (a.lo \div 2) + 32768 * (a.hi % 2))

\* ---------------------------------------------------------------- CRC32

\* a >> 8 on a 32-bit value.
Shr8(a) == Num(a.hi \div 256, (a.lo \div 256) + 256 * (a.hi % 256))

\* The reflected IEEE 802.3 polynomial 0xEDB88320.
CrcPoly == Num(60856, 33568)

AllOnes32 == Num(65535, 65535)

RECURSIVE CrcShift(_, _)
\* k single-bit steps of the register.
CrcShift(c, k) ==
    IF k = 0 THEN c
    ELSE LET d == CrcShift(c, k - 1)
         IN  IF d.lo % 2 = 1 THEN Xor32(Shr1(d), CrcPoly) ELSE Shr1(d)

\* The byte table of the table-driven algorithm zlib uses.
CrcTable == [n \in 0..255 |-> CrcShift(Num(0, n), 8)]

\* One byte: table[(c ^ b) & 0xFF] ^ (c >> 8).
CrcByte(c, b) == Xor32(CrcTable[XorBits(c.lo % 256, b, 8)], Shr8(c))

RECURSIVE CrcUpdate(_, _)
\* The register after the first n bytes of data.
CrcUpdate(data, n) ==
    IF n = 0 THEN AllOnes32 ELSE CrcByte(CrcUpdate(data, n - 1), data[n])

\* Mutant: the checksum misses the last byte of the data.
MutCrc32DropsLastByte(data) ==
    Xor32(CrcUpdate(data, IF Len(data) = 0 THEN 0 ELSE Len(data) - 1), AllOnes32)

\* zlib.crc32(data) & 0xFFFFFFFF: register preset to all ones, bytes fed
\* low bit first, result complemented.
crc32_ieee(data) == Xor32(CrcUpdate(data, Len(data)), AllOnes32)

\* ---------------------------------------------------------- byte strings

Take(b, n) == SubSeq(b, 1, IF Len(b) < n THEN Len(b) ELSE n)

\* b[lo:hi] with 0-based half-open bounds clamped to the length, as Python
\* slices; hi is a Python int.
Slice(b, lo, hi) ==
    LET top == IF hi.hi > 0 \/ hi.lo > Len(b) THEN Len(b) ELSE hi.lo
    IN  IF hi.hi < 0 THEN << >> ELSE SubSeq(b, lo + 1, top)

\* b.ljust(n, fill)
ljust(b, n, fill) ==
    IF Len(b) >= n THEN b ELSE b \o [i \in 1..(n - Len(b)) |-> fill]

\* b.rstrip(bytes([z])): b without its trailing bytes equal to z.
rstrip(b, z) ==
    LET keep == {i \in 1..Len(b) : b[i] # z}
    IN  IF keep = {} THEN << >>
        ELSE SubSeq(b, 1, CHOOSE i \in keep : \A j \in keep : j <= i)

\* The payload argument of pack (see the representation note above).
Raw(d, k) == [data |-> d, blocks |-> k]

\* len(raw) as a Python int.
len(raw) == Num(raw.blocks + (Len(raw.data) \div 65536), Len(raw.data) % 65536)

\* The bytes of raw.
bytes(raw) ==
    IF raw.blocks = 0 THEN raw.data
    ELSE raw.data \o [i \in 1..(raw.blocks * 65536) |-> 0]

\* ----------------------------------------------------------------- UTF-8

IsSurrogate(cp) == cp >= 55296 /\ cp <= 57343

EncodeCp(cp) ==
    IF cp < 128 THEN <<cp>>
    ELSE IF cp < 2048 THEN <<192 + (cp \div 64), 128 + (cp % 64)>>
    ELSE IF cp < 65536 THEN
        <<224 + (cp \div 4096), 128 + ((cp \div 64) % 64), 128 + (cp % 64)>>
    ELSE <<240 + (cp \div 262144), 128 + ((cp \div 4096) % 64),
           128 + ((cp \div 64) % 64), 128 + (cp % 64)>>

RECURSIVE EncodeFrom(_, _)
EncodeFrom(s, i) ==
    IF i > Len(s) THEN << >> ELSE EncodeCp(s[i]) \o EncodeFrom(s, i + 1)

\* s.encode('utf-8'): a lone surrogate raises UnicodeEncodeError.
encode_utf8(s) ==
    IF \E i \in 1..Len(s) : IsSurrogate(s[i])
    THEN [ok |-> FALSE, bytes |-> << >>]
    ELSE [ok |-> TRUE, bytes |-> EncodeFrom(s, 1)]

ReplacementChar == 65533

\* Byte i of b exists and lies in lo..hi.
ByteIn(b, i, lo, hi) == i <= Len(b) /\ b[i] >= lo /\ b[i] <= hi

\* One decoding step at index i: the code point produced and the bytes
\* consumed. An ill-formed or truncated sequence yields U+FFFD and consumes
\* its maximal well-formed prefix (at least one byte).
DecodeOne(b, i) ==
    LET b0 == b[i]
        lo2 == IF b0 = 224 THEN 160 ELSE IF b0 = 240 THEN 144 ELSE 128
        hi2 == IF b0 = 237 THEN 159 ELSE IF b0 = 244 THEN 143 ELSE 191
        bad(n) == [cp |-> ReplacementChar, n |-> n]
    IN  IF b0 < 128 THEN [cp |-> b0, n |-> 1]
        ELSE IF b0 >= 194 /\ b0 <= 223 THEN
            IF ~ByteIn(b, i + 1, 128, 191) THEN bad(1)
            ELSE [cp |-> (b0 - 192) * 64 + (b[i + 1] - 128), n |-> 2]
        ELSE IF b0 >= 224 /\ b0 <= 239 THEN
            IF ~ByteIn(b, i + 1, lo2, hi2) THEN bad(1)
            ELSE IF ~ByteIn(b, i + 2, 128, 191) THEN bad(2)
            ELSE [cp |-> (b0 - 224) * 4096 + (b[i + 1] - 128) * 64
                         + (b[i + 2] - 128), n |-> 3]
        ELSE IF b0 >= 240 /\ b0 <= 244 THEN
            IF ~ByteIn(b, i + 1, lo2, hi2) THEN bad(1)
            ELSE IF ~ByteIn(b, i + 2, 128, 191) THEN bad(2)
            ELSE IF ~ByteIn(b, i + 3, 128, 191) THEN bad(3)
            ELSE [cp |-> (b0 - 240) * 262144 + (b[i + 1] - 128) * 4096
                         + (b[i + 2] - 128) * 64 + (b[i + 3] - 128), n |-> 4]
        ELSE bad(1)

RECURSIVE DecodeFrom(_, _)
DecodeFrom(b, i) ==
    IF i > Len(b) THEN << >>
    ELSE LET r == DecodeOne(b, i) IN <<r.cp>> \o DecodeFrom(b, i + r.n)

\* b.decode('utf-8', errors='replace')
decode_utf8_replace(b) == DecodeFrom(b, 1)

\* ---------------------------------------------------------------- struct

\* Mutant: most significant byte first.
MutPackIBigEndian(v) == <<v.hi \div 256, v.hi % 256, v.lo \div 256, v.lo % 256>>

\* struct.pack('<I', v) for v in range: four bytes, least significant first.
pack_I(v) == <<v.lo % 256, v.lo \div 256, v.hi % 256, v.hi \div 256>>

\* struct.unpack_from('<I', b, off)
unpack_I(b, off) ==
    Num(b[off + 4] * 256 + b[off + 3], b[off + 2] * 256 + b[off + 1])

\* The '40s' field: the bytes cut or zero-padded to 40.
pack_40s(s) == ljust(Take(s, 40), 40, 0)

\* Mutant: the size and the CRC written in each other's place.
MutStructPackSwapSizeCrc(w0, w1, w2, w3, w4, w5, s) ==
    IF IsU32(w0) /\ IsU32(w1) /\ IsU32(w2) /\ IsU32(w3) /\ IsU32(w4) /\ IsU32(w5)
    THEN [ok |-> TRUE,
          bytes |-> pack_I(w0) \o pack_I(w1) \o pack_I(w2) \o pack_I(w3)
                    \o pack_I(w5) \o pack_I(w4) \o pack_40s(s)]
    ELSE [ok |-> FALSE, bytes |-> << >>]

\* struct.pack('<IIIIII40s', ...): struct.error unless every integer is in
\* 0..0xFFFFFFFF.
struct_pack(w0, w1, w2, w3, w4, w5, s) ==
    IF /\ IsU32(w0)
       /\ IsU32(w1)
       /\ IsU32(w2)
       /\ IsU32(w3)
       /\ IsU32(w4)
       /\ IsU32(w5)
    THEN [ok |-> TRUE,
          bytes |-> pack_I(w0) \o pack_I(w1) \o pack_I(w2) \o pack_I(w3)
                    \o pack_I(w4) \o pack_I(w5) \o pack_40s(s)]
    ELSE [ok |-> FALSE, bytes |-> << >>]

\* ------------------------------------------------------------------ pack

Return(v) == [kind |-> "return", value |-> v]

Raise(e) == [kind |-> "raise", value |-> e]

\* Mutant: 40 bytes of the name kept, no room left for the terminator.
MutNameField40(enc) == ljust(Take(enc, 40), 40, 0)

\* The name field: the first 39 bytes of the encoding, a zero byte, zero
\* padding to 40.
NameField(enc) == ljust(Take(enc, 39) \o <<0>>, 40, 0)

\* Mutant: the payload length reduced modulo 2^32 instead of refused (of an
\* oversized payload only the explicit bytes are kept).
MutPackMasksSize(raw, name, version, load_addr, entry_addr) ==
    LET payload_size == Num(len(raw).hi % 65536, len(raw).lo)
        crc == crc32_ieee(raw.data)
        enc == encode_utf8(name)
        header == struct_pack(KERNEL_MAGIC, version, load_addr, entry_addr,
                              payload_size, crc, NameField(enc.bytes))
    IN  IF ~enc.ok THEN Raise("UnicodeEncodeError")
        ELSE IF ~header.ok THEN Raise("struct.error")
        ELSE Return(header.bytes \o raw.data)

pack(raw, name, version, load_addr, entry_addr) ==
    LET payload_size == len(raw)
        crc == crc32_ieee(bytes(raw))
        enc == encode_utf8(name)
        name_bytes == NameField(enc.bytes)
        header == struct_pack(KERNEL_MAGIC, version, load_addr, entry_addr,
                              payload_size, crc, name_bytes)
    IN  IF ~enc.ok THEN Raise("UnicodeEncodeError")
        ELSE IF ~header.ok THEN Raise("struct.error")
        ELSE IF Len(header.bytes) # KERNEL_HEADER_SIZE THEN Raise("AssertionError")
        ELSE Return(header.bytes \o bytes(raw))

\* ---------------------------------------------------------------- state
\* One caller per thread. For each thread t:
\*   pc[t]      where the thread is: "idle" between calls, or the point
\*              reached inside verify;
\*   op[t]      the function called, "none" when no call is in progress or
\*              awaiting its caller;
\*   locals[t]  the local variables of that call, by name: a name is in
\*              DOMAIN locals[t] once the call has bound it;
\*   out[t]     the lines that call has printed;
\*   ret[t]     what the call returned or raised, once it has;
\*   packed[t]  the arguments and result of the pack call whose image the
\*              thread holds (empty when it holds none), from which it
\*              derives the images it verifies.

VARIABLES pc, op, locals, out, ret, packed

vars == <<pc, op, locals, out, ret, packed>>

NoValue == [kind |-> "none", value |-> "none"]

InitFor(T) ==
    /\ pc = [t \in T |-> "idle"]
    /\ op = [t \in T |-> "none"]
    /\ locals = [t \in T |-> << >>]
    /\ out = [t \in T |-> << >>]
    /\ ret = [t \in T |-> NoValue]
    /\ packed = [t \in T |-> << >>]

\* ------------------------------------------------------------ the caller

\* All byte strings over S of length at most n.
BSeq(S, n) == UNION {[1..k -> S] : k \in 0..n}

\* b with the byte at index i (from 1) replaced by v.
SetByte(b, i, v) == [b EXCEPT ![i] = v]

\* The images a thread may hand to verify under environment E: arbitrary
\* byte strings, and the image its last pack call returned, as it is, with
\* one byte replaced, cut short, or with bytes added.
Images(t, E) ==
    E.arbitrary \cup
    IF packed[t] = << >> \/ packed[t][1].result.kind # "return" THEN {}
    ELSE LET im == packed[t][1].result.value
             hdrIdx == {i \in E.headerIdx : i <= Len(im)}
             payIdx == (KERNEL_HEADER_SIZE + 1) .. Len(im)
         IN  {im}
             \cup {SetByte(im, i, v) : <<i, v>> \in
                     {x \in hdrIdx \X E.headerVals : im[x[1]] # x[2]}}
             \cup {SetByte(im, i, v) : <<i, v>> \in
                     {x \in payIdx \X E.payloadVals : im[x[1]] # x[2]}}
             \cup {SubSeq(im, 1, k) : k \in {c \in E.cuts : c < Len(im)}}
             \cup {im \o <<b>> : b \in E.exts}

\* The caller is done with the results of its calls: the frame, the printed
\* lines, the result and the packed image are dropped.
Discard(t) ==
    /\ pc[t] = "idle"
    /\ op[t] # "none"
    /\ op' = [op EXCEPT ![t] = "none"]
    /\ locals' = [locals EXCEPT ![t] = << >>]
    /\ out' = [out EXCEPT ![t] = << >>]
    /\ ret' = [ret EXCEPT ![t] = NoValue]
    /\ packed' = [packed EXCEPT ![t] = << >>]
    /\ UNCHANGED pc

\* ------------------------------------------------------------- pack call

\* A call of pack: a pure function of its arguments, prints nothing.
PackCall(t, E) ==
    /\ pc[t] = "idle"
    /\ op[t] = "none"
    /\ \E raw \in E.raws, name \in E.names, version \in E.versions,
          load_addr \in E.loads, entry_addr \in E.entries :
         LET args == [raw |-> raw, name |-> name, version |-> version,
                      load_addr |-> load_addr, entry_addr |-> entry_addr]
             r == pack(raw, name, version, load_addr, entry_addr)
         IN  /\ locals' = [locals EXCEPT ![t] = args]
             /\ ret' = [ret EXCEPT ![t] = r]
             /\ packed' = [packed EXCEPT ![t] = <<[args |-> args, result |-> r]>>]
    /\ op' = [op EXCEPT ![t] = "pack"]
    /\ out' = [out EXCEPT ![t] = << >>]
    /\ UNCHANGED pc

\* ---------------------------------------------------------------- verify

\* v + n for a Python int v and a natural n below 65536.
AddNat(v, n) == Num(v.hi + ((v.lo + n) \div 65536), (v.lo + n) % 65536)

\* Mutant: only the six words are required to be present.
MutTooSmallWordsOnly(image) == Len(image) < 24

\* len(image) < KERNEL_HEADER_SIZE
TooSmall(image) == Len(image) < KERNEL_HEADER_SIZE

\* Mutant: only the low half of the magic is compared.
MutBadMagicLowHalf(magic) == magic.lo # KERNEL_MAGIC.lo

\* magic != KERNEL_MAGIC
BadMagic(magic) == magic # KERNEL_MAGIC

\* The header fields and the name, as unpack_from and the slice read them.
ParsedHeader(image) ==
    [magic |-> unpack_I(image, 0),
     version |-> unpack_I(image, 4),
     load_addr |-> unpack_I(image, 8),
     entry_addr |-> unpack_I(image, 12),
     img_size |-> unpack_I(image, 16),
     stored_crc |-> unpack_I(image, 20),
     name |-> decode_utf8_replace(rstrip(Slice(image, 24, NumOfNat(64)), 0))]

\* image[KERNEL_HEADER_SIZE : KERNEL_HEADER_SIZE + img_size]
PayloadSlice(image, img_size) ==
    Slice(image, KERNEL_HEADER_SIZE, AddNat(img_size, KERNEL_HEADER_SIZE))

\* Mutant: the name line is left out.
MutReportLinesNoName(l) ==
    << <<"Magic", l.magic, "OK">>,
       <<"Version", l.version.hi, l.version.lo>>,
       <<"Load addr", l.load_addr>>,
       <<"Entry addr", l.entry_addr>>,
       <<"Payload", l.img_size>>,
       <<"CRC32 exp", l.stored_crc>>,
       <<"CRC32 calc", l.computed_crc,
         IF l.stored_crc = l.computed_crc THEN "OK" ELSE "MISMATCH!">> >>

\* The eight report lines of a header whose magic is right.
ReportLines(l) ==
    << <<"Magic", l.magic, "OK">>,
       <<"Version", l.version.hi, l.version.lo>>,
       <<"Name", l.name>>,
       <<"Load addr", l.load_addr>>,
       <<"Entry addr", l.entry_addr>>,
       <<"Payload", l.img_size>>,
       <<"CRC32 exp", l.stored_crc>>,
       <<"CRC32 calc", l.computed_crc,
         IF l.stored_crc = l.computed_crc THEN "OK" ELSE "MISMATCH!">> >>

\* A call of verify, by a caller with nothing in hand or with the result of
\* its pack call.
VerifyCall(t, E) ==
    /\ pc[t] = "idle"
    /\ op[t] \in {"none", "pack"}
    /\ \E image \in Images(t, E) :
         locals' = [locals EXCEPT ![t] = [image |-> image]]
    /\ pc' = [pc EXCEPT ![t] = "check_len"]
    /\ op' = [op EXCEPT ![t] = "verify"]
    /\ out' = [out EXCEPT ![t] = << >>]
    /\ ret' = [ret EXCEPT ![t] = NoValue]
    /\ UNCHANGED packed

VerifyTooSmall(t) ==
    /\ pc[t] = "check_len"
    /\ TooSmall(locals[t].image)
    /\ out' = [out EXCEPT ![t] =
                 Append(@, <<"ERROR: image too small to contain a header">>)]
    /\ ret' = [ret EXCEPT ![t] = Return(FALSE)]
    /\ pc' = [pc EXCEPT ![t] = "idle"]
    /\ UNCHANGED <<op, locals, packed>>

VerifyParse(t) ==
    /\ pc[t] = "check_len"
    /\ ~TooSmall(locals[t].image)
    /\ locals' = [locals EXCEPT ![t] = ParsedHeader(@.image) @@ @]
    /\ pc' = [pc EXCEPT ![t] = "check_magic"]
    /\ UNCHANGED <<op, out, ret, packed>>

VerifyBadMagic(t) ==
    /\ pc[t] = "check_magic"
    /\ BadMagic(locals[t].magic)
    /\ out' = [out EXCEPT ![t] =
                 Append(@, <<"ERROR: bad magic", locals[t].magic, KERNEL_MAGIC>>)]
    /\ ret' = [ret EXCEPT ![t] = Return(FALSE)]
    /\ pc' = [pc EXCEPT ![t] = "idle"]
    /\ UNCHANGED <<op, locals, packed>>

\* Mutant: the CRC of the payload last packed is reused when there is one.
MutVerifyCrcStale(t) ==
    /\ pc[t] = "check_magic"
    /\ ~BadMagic(locals[t].magic)
    /\ LET payload == PayloadSlice(locals[t].image, locals[t].img_size)
           crc == IF packed[t] # << >> /\ packed[t][1].args.raw.blocks = 0
                  THEN crc32_ieee(packed[t][1].args.raw.data)
                  ELSE crc32_ieee(payload)
       IN  locals' = [locals EXCEPT ![t] =
                        [payload |-> payload, computed_crc |-> crc] @@ @]
    /\ pc' = [pc EXCEPT ![t] = "report"]
    /\ UNCHANGED <<op, out, ret, packed>>

VerifyCrc(t) ==
    /\ pc[t] = "check_magic"
    /\ ~BadMagic(locals[t].magic)
    /\ LET payload == PayloadSlice(locals[t].image, locals[t].img_size)
       IN  locals' = [locals EXCEPT ![t] =
                        [payload |-> payload,
                         computed_crc |-> crc32_ieee(payload)] @@ @]
    /\ pc' = [pc EXCEPT ![t] = "report"]
    /\ UNCHANGED <<op, out, ret, packed>>

VerifyReport(t) ==
    /\ pc[t] = "report"
    /\ out' = [out EXCEPT ![t] = @ \o ReportLines(locals[t])]
    /\ pc' = [pc EXCEPT ![t] = "compare"]
    /\ UNCHANGED <<op, locals, ret, packed>>

VerifyMismatch(t) ==
    /\ pc[t] = "compare"
    /\ locals[t].stored_crc # locals[t].computed_crc
    /\ out' = [out EXCEPT ![t] =
                 Append(@, <<"ERROR: CRC32 mismatch - image is corrupt">>)]
    /\ ret' = [ret EXCEPT ![t] = Return(FALSE)]
    /\ pc' = [pc EXCEPT ![t] = "idle"]
    /\ UNCHANGED <<op, locals, packed>>

VerifyOk(t) ==
    /\ pc[t] = "compare"
    /\ locals[t].stored_crc = locals[t].computed_crc
    /\ ret' = [ret EXCEPT ![t] = Return(TRUE)]
    /\ pc' = [pc EXCEPT ![t] = "idle"]
    /\ UNCHANGED <<op, locals, out, packed>>

\* --------------------------------------------------------- environments

MaxPayloadLen == 2

PayloadBytes == {0, 1, 255}

\* The payload of the tamper-detection scenario.
ScenarioRaw == Raw(<<1, 2, 3, 4>>, 0)

\* Payloads beyond the size field: 2^32 and 2^32 + 1 bytes.
HugeRaws == {Raw(<< >>, 65536), Raw(<<1>>, 65536)}

\* "", "Test", and a name holding a lone surrogate.
MainNames == {<< >>, <<84, 101, 115, 116>>, <<78, 56575>>}

\* A well-formed header of an empty payload, written out byte by byte.
GoldenImage == <<78, 82, 75, 78>> \o [i \in 1..60 |-> 0]

ConstantImages(lens, fills) == {[i \in 1..n |-> b] : n \in lens, b \in fills}

MainEnv ==
    [raws |-> {Raw(d, 0) : d \in BSeq(PayloadBytes, MaxPayloadLen)}
              \cup {ScenarioRaw} \cup HugeRaws,
     names |-> MainNames,
     versions |-> {DEFAULT_VERSION, Num(65535, 65535), Num(65536, 0)},
     loads |-> {DEFAULT_LOAD_ADDR, Num(-1, 65535)},
     entries |-> {DEFAULT_ENTRY_ADDR, Num(0, 0)},
     arbitrary |-> ConstantImages({0, 10, 63, 64, 66}, {0, 78})
                   \cup {GoldenImage, GoldenImage \o <<7>>},
     headerIdx |-> {1, 4, 5, 17, 21, 25},
     headerVals |-> {0, 1, 255},
     payloadVals |-> {0, 1, 128, 255},
     cuts |-> {0, 10, 63, 64, 65},
     exts |-> {0, 255}]

\* One payload-byte replacement by every other byte value, one metadata.
TamperEnv ==
    [raws |-> {Raw(d, 0) : d \in BSeq(PayloadBytes, MaxPayloadLen)} \cup {ScenarioRaw},
     names |-> {<<84, 101, 115, 116>>},
     versions |-> {DEFAULT_VERSION},
     loads |-> {DEFAULT_LOAD_ADDR},
     entries |-> {DEFAULT_ENTRY_ADDR},
     arbitrary |-> ConstantImages({10, 64}, {0}),
     headerIdx |-> {},
     headerVals |-> {},
     payloadVals |-> 0..255,
     cuts |-> {},
     exts |-> {}]

MaxFill == 41

MaxTail == 2

\* U+0000, e-acute (2 bytes), the euro sign (3 bytes), an emoji (4 bytes)
\* and a lone surrogate.
NameChars == {0, 233, 8364, 128512, 56575}

\* Names made of 'A' repeated up to MaxFill times and then up to MaxTail
\* characters of NameChars: encodings of 0 to MaxFill + 4 * MaxTail bytes,
\* on both sides of the 39-byte limit, with multi-byte characters across it.
NameFamily ==
    {[i \in 1..k |-> 65] \o tail : k \in 0..MaxFill, tail \in BSeq(NameChars, MaxTail)}

NameEnv ==
    [raws |-> {Raw(<< >>, 0)},
     names |-> NameFamily,
     versions |-> {DEFAULT_VERSION},
     loads |-> {DEFAULT_LOAD_ADDR},
     entries |-> {DEFAULT_ENTRY_ADDR},
     arbitrary |-> ConstantImages({10, 64}, {0}),
     headerIdx |-> {21},
     headerVals |-> {1},
     payloadVals |-> {},
     cuts |-> {},
     exts |-> {}]

ConcEnv ==
    [raws |-> {Raw(<< >>, 0), Raw(<<1>>, 0)},
     names |-> {<<84, 101, 115, 116>>},
     versions |-> {DEFAULT_VERSION},
     loads |-> {DEFAULT_LOAD_ADDR},
     entries |-> {DEFAULT_ENTRY_ADDR},
     arbitrary |-> ConstantImages({10, 64}, {0}) \cup {GoldenImage},
     headerIdx |-> {1},
     headerVals |-> {0},
     payloadVals |-> {0},
     cuts |-> {},
     exts |-> {0}]

MainThreads == {"t1"}

ConcThreads == {"t1", "t2"}

\* One step of thread t under environment E.
Step(t, E) ==
    \/ PackCall(t, E)
    \/ VerifyCall(t, E)
    \/ VerifyTooSmall(t)
    \/ VerifyParse(t)
    \/ VerifyBadMagic(t)
    \/ VerifyCrc(t)
    \/ VerifyReport(t)
    \/ VerifyMismatch(t)
    \/ VerifyOk(t)
    \/ Discard(t)

Init == InitFor(MainThreads)

Next == \E t \in MainThreads : Step(t, MainEnv)

\* One caller, payloads up to MaxPayloadLen bytes and beyond 2^32 - 1,
\* metadata in and out of range, images altered in every way.
Spec == Init /\ [][Next]_vars

NextTamper == \E t \in MainThreads : Step(t, TamperEnv)

\* One caller replacing one payload byte by any other value.
SpecTamper == Init /\ [][NextTamper]_vars

NextName == \E t \in MainThreads : Step(t, NameEnv)

\* One caller packing the names of NameFamily.
SpecName == Init /\ [][NextName]_vars

InitConc == InitFor(ConcThreads)

NextConc == \E t \in ConcThreads : Step(t, ConcEnv)

\* Two callers whose calls interleave step by step.
SpecConc == InitConc /\ [][NextConc]_vars

\* ------------------------------------------------------ claim vocabulary

Threads == DOMAIN pc

\* Thread t's verify call has returned and its result is still in view.
VerifyDone(t) == op[t] = "verify" /\ pc[t] = "idle"

\* How a finished verify call ended, read off its result and its last line.
Outcome(t) ==
    IF ret[t].value THEN "Valid"
    ELSE LET last == out[t][Len(out[t])][1]
         IN  IF last = "ERROR: image too small to contain a header" THEN "ImageTooSmall"
             ELSE IF last = "ERROR: bad magic" THEN "BadMagic"
             ELSE IF last = "ERROR: CRC32 mismatch - image is corrupt" THEN "ChecksumMismatch"
             ELSE "Unknown"

\* Thread t's last pack call returned an image.
PackedOk(t) == packed[t] # << >> /\ packed[t][1].result.kind = "return"

PackedImage(t) == packed[t][1].result.value

PackedArgs(t) == packed[t][1].args

\* The arguments are ones pack's header can hold.
ArgsInRange(a) ==
    /\ IsU32(len(a.raw))
    /\ IsU32(a.version)
    /\ IsU32(a.load_addr)
    /\ IsU32(a.entry_addr)
    /\ \A i \in 1..Len(a.name) : ~IsSurrogate(a.name[i])

\* Line tag of the report carries exactly the values vals.
Reported(t, tag, vals) == \E i \in 1..Len(out[t]) : out[t][i] = <<tag>> \o vals

\* ------------------------------------------------------------------- C1

\* C1 (round trip): pack returns an image whenever the payload length and
\* the three metadata words fit 32 bits (and the name is encodable); verify
\* of that image returns True, the six words it reads back are the magic
\* 0x4E4B524E (bytes 'N','R','K','N' in the image), the version, load
\* address and entry address given, the payload length and the payload's
\* CRC32, and the CRC verify computes equals the stored one.
C1_RoundTrip ==
    \A t \in Threads :
        /\ (packed[t] # << >> /\ ArgsInRange(PackedArgs(t))) => PackedOk(t)
        /\ (VerifyDone(t) /\ PackedOk(t) /\ locals[t].image = PackedImage(t)) =>
              LET a == PackedArgs(t)
                  l == locals[t]
              IN  /\ ret[t] = Return(TRUE)
                  /\ SubSeq(l.image, 1, 4) = <<78, 82, 75, 78>>
                  /\ l.magic = KERNEL_MAGIC
                  /\ l.version = a.version
                  /\ l.load_addr = a.load_addr
                  /\ l.entry_addr = a.entry_addr
                  /\ l.img_size = len(a.raw)
                  /\ l.stored_crc = crc32_ieee(bytes(a.raw))
                  /\ l.computed_crc = l.stored_crc

C1_Witness ==
    \E t \in Threads :
        /\ VerifyDone(t) /\ PackedOk(t) /\ locals[t].image = PackedImage(t)
        /\ Len(PackedArgs(t).raw.data) >= 2
        /\ PackedArgs(t).version = Num(65535, 65535)

\* ------------------------------------------------------------------- C3

\* C3 (magic rejection): while verify runs on an image of at least 64 bytes
\* whose first four bytes are not the magic, it never slices the payload or
\* computes a CRC, never reaches the report or the CRC comparison, and when
\* it returns it returns False with the bad-magic error as its last line.
C3_MagicRejection ==
    \A t \in Threads :
        (/\ op[t] = "verify"
         /\ Len(locals[t].image) >= 64
         /\ unpack_I(locals[t].image, 0) # KERNEL_MAGIC) =>
            /\ "payload" \notin DOMAIN locals[t]
            /\ "computed_crc" \notin DOMAIN locals[t]
            /\ pc[t] \in {"check_len", "check_magic", "idle"}
            /\ pc[t] = "idle" => (ret[t] = Return(FALSE) /\ Outcome(t) = "BadMagic")

\* A rejected image whose stored CRC does match its payload.
C3_Witness ==
    \E t \in Threads :
        /\ VerifyDone(t)
        /\ Len(locals[t].image) > 64
        /\ locals[t].magic # KERNEL_MAGIC
        /\ locals[t].stored_crc =
              crc32_ieee(PayloadSlice(locals[t].image, locals[t].img_size))
        /\ Outcome(t) = "BadMagic"

\* ------------------------------------------------------------------- C4

\* C4 (too small): while verify runs on an input shorter than 64 bytes it
\* binds no local but its argument (no header field, no name, no payload,
\* no CRC), never reaches the magic check, and when it returns it returns
\* False having printed the image-too-small error and nothing else.
C4_TooSmall ==
    \A t \in Threads :
        (op[t] = "verify" /\ Len(locals[t].image) < 64) =>
            /\ DOMAIN locals[t] = {"image"}
            /\ pc[t] \in {"check_len", "idle"}
            /\ pc[t] = "idle" =>
                  /\ ret[t] = Return(FALSE)
                  /\ Outcome(t) = "ImageTooSmall"
                  /\ Len(out[t]) = 1

C4_Witness ==
    \E t \in Threads :
        /\ VerifyDone(t)
        /\ Len(locals[t].image) = 63
        /\ Outcome(t) = "ImageTooSmall"

\* ------------------------------------------------------------------- C5

\* C5 (size invariant): an image pack returns is 64 bytes longer than the
\* number in its payload_size field at offset 0x10, and its bytes from
\* offset 64 on are the payload given.
C5_SizeInvariant ==
    \A t \in Threads :
        PackedOk(t) =>
            LET im == PackedImage(t)
                raw == PackedArgs(t).raw
            IN  /\ Len(im) >= 64
                /\ unpack_I(im, 16) = NumOfNat(Len(im) - 64)
                /\ raw.blocks = 0
                /\ SubSeq(im, 65, Len(im)) = raw.data

C5_Witness ==
    \E t \in Threads : PackedOk(t) /\ Len(PackedArgs(t).raw.data) >= 2

\* ------------------------------------------------------------------- C7

\* C7 (size-field overflow): a pack call whose payload is longer than
\* 2^32 - 1 bytes raises and returns no image, and the payload_size field of
\* any image pack returns is the payload's true length.
C7_SizeOverflowRejected ==
    \A t \in Threads :
        packed[t] # << >> =>
            LET a == PackedArgs(t)
                r == packed[t][1].result
            IN  /\ ~IsU32(len(a.raw)) => r.kind = "raise"
                /\ r.kind = "return" => unpack_I(r.value, 16) = len(a.raw)

\* A payload of 2^32 bytes, everything else in range: struct.error.
C7_Witness ==
    \E t \in Threads :
        /\ packed[t] # << >>
        /\ PackedArgs(t).raw = Raw(<< >>, 65536)
        /\ IsU32(PackedArgs(t).version)
        /\ IsU32(PackedArgs(t).load_addr)
        /\ IsU32(PackedArgs(t).entry_addr)
        /\ PackedArgs(t).name = <<84, 101, 115, 116>>
        /\ packed[t][1].result = Raise("struct.error")

\* ------------------------------------------------------------------- C8

\* Every parsed field is among the lines thread t's verify call printed.
AllFieldsReported(t) ==
    LET l == locals[t]
    IN  /\ \E s \in {"OK"} : Reported(t, "Magic", <<l.magic, s>>)
        /\ Reported(t, "Version", <<l.version.hi, l.version.lo>>)
        /\ Reported(t, "Name", <<l.name>>)
        /\ Reported(t, "Load addr", <<l.load_addr>>)
        /\ Reported(t, "Entry addr", <<l.entry_addr>>)
        /\ Reported(t, "Payload", <<l.img_size>>)
        /\ Reported(t, "CRC32 exp", <<l.stored_crc>>)
        /\ \E s \in {"OK", "MISMATCH!"} : Reported(t, "CRC32 calc", <<l.computed_crc, s>>)

C9_AcceptedWellFormed ==
    \A t \in Threads :
        (VerifyDone(t) /\ ret[t] = Return(TRUE)) =>
            locals[t].img_size = NumOfNat(Len(locals[t].image) - 64)

\* ------------------------------------------------------------------- C2

\* b is a with exactly one byte replaced, at offset 64 or later.
OnePayloadByteReplaced(a, b) ==
    /\ Len(b) = Len(a)
    /\ \E i \in 65..Len(a) :
          /\ b[i] # a[i]
          /\ \A j \in 1..Len(a) : j # i => b[j] = a[j]

\* C2 (tamper detection): verify of a packed image with one payload byte
\* replaced returns False with the CRC-mismatch error, and the magic,
\* version, load address and entry address it parsed are those of the
\* untampered image.
C2_TamperDetected ==
    \A t \in Threads :
        (/\ VerifyDone(t)
         /\ PackedOk(t)
         /\ OnePayloadByteReplaced(PackedImage(t), locals[t].image)) =>
            LET u == ParsedHeader(PackedImage(t))
                l == locals[t]
            IN  /\ ret[t] = Return(FALSE)
                /\ Outcome(t) = "ChecksumMismatch"
                /\ l.magic = u.magic /\ l.magic = KERNEL_MAGIC
                /\ l.version = u.version /\ l.version = PackedArgs(t).version
                /\ l.load_addr = u.load_addr /\ l.load_addr = PackedArgs(t).load_addr
                /\ l.entry_addr = u.entry_addr /\ l.entry_addr = PackedArgs(t).entry_addr

\* The scenario: payload 01 02 03 04 with its first byte set to 00.
C2_Witness ==
    \E t \in Threads :
        /\ VerifyDone(t)
        /\ PackedOk(t)
        /\ PackedArgs(t).raw = ScenarioRaw
        /\ locals[t].image = SetByte(PackedImage(t), 65, 0)
        /\ Outcome(t) = "ChecksumMismatch"

\* ------------------------------------------------------------------- C6

Min(a, b) == IF a < b THEN a ELSE b

\* s without its trailing U+0000 characters.
StripNul(s) == rstrip(s, 0)

\* The name field of an image pack returned is the first min(39, n) bytes
\* of the name's n-byte encoding followed by zero bytes only, 40 bytes in
\* all, and the header is 64 bytes.
NameFieldAsSpecified(t) ==
    LET im == PackedImage(t)
        enc == encode_utf8(PackedArgs(t).name).bytes
        k == Min(39, Len(enc))
    IN  /\ Len(im) = 64 + Len(PackedArgs(t).raw.data)
        /\ SubSeq(im, 25, 24 + k) = SubSeq(enc, 1, k)
        /\ \A i \in (25 + k)..64 : im[i] = 0
        /\ im[64] = 0

\* C6 as stated (name truncation): the field is as specified, and verify of
\* the image reads back exactly the name given whenever its encoding is at
\* most 39 bytes.
C6_NameRoundTrip ==
    \A t \in Threads :
        PackedOk(t) =>
            /\ NameFieldAsSpecified(t)
            /\ (/\ VerifyDone(t)
                /\ locals[t].image = PackedImage(t)
                /\ Len(encode_utf8(PackedArgs(t).name).bytes) <= 39) =>
                   locals[t].name = PackedArgs(t).name

\* C6 as amended: the field is as specified, and verify of the image reads
\* back the name given without its trailing U+0000 characters whenever its
\* encoding is at most 39 bytes: exactly the name given when it does not end
\* in U+0000, and a shorter one when it does.
C6_NameRoundTripUpToTrailingNul ==
    \A t \in Threads :
        PackedOk(t) =>
            /\ NameFieldAsSpecified(t)
            /\ (/\ VerifyDone(t)
                /\ locals[t].image = PackedImage(t)
                /\ Len(encode_utf8(PackedArgs(t).name).bytes) <= 39) =>
                   LET name == PackedArgs(t).name
                   IN  /\ locals[t].name = StripNul(name)
                       /\ (name = << >> \/ name[Len(name)] # 0) => locals[t].name = name
                       /\ (name # << >> /\ name[Len(name)] = 0) => locals[t].name # name

\* A 40-byte encoding whose last character, three bytes long, is cut after
\* its second byte: verify reads 37 letters and U+FFFD.
C6_Witness ==
    \E t \in Threads :
        /\ VerifyDone(t)
        /\ PackedOk(t)
        /\ locals[t].image = PackedImage(t)
        /\ PackedArgs(t).name = [i \in 1..37 |-> 65] \o <<8364>>
        /\ locals[t].name = [i \in 1..37 |-> 65] \o <<ReplacementChar>>
        /\ PackedImage(t)[63] = 130

\* ------------------------------------------------------------------ C10

\* Two finished calls of the same function on the same arguments.
SameCall(t, u) ==
    /\ pc[t] = "idle" /\ pc[u] = "idle"
    /\ op[t] = op[u]
    /\ op[t] # "none"
    /\ IF op[t] = "pack" THEN locals[t] = locals[u]
       ELSE locals[t].image = locals[u].image

\* Whatever each caller did before, the same call gives the same result,
\* the same printed lines and the same locals.
Deterministic ==
    \A t, u \in Threads :
        SameCall(t, u) =>
            /\ ret[t].kind = ret[u].kind
            /\ ret[t].value = ret[u].value
            /\ out[t] = out[u]
            /\ DOMAIN locals[t] = DOMAIN locals[u]
            /\ locals[t] = locals[u]

\* A step of verify leaves its argument as it was.
ImageUntouched ==
    \A t \in Threads :
        (op[t] = "verify" /\ op'[t] = "verify") => locals'[t].image = locals[t].image

\* A step changes the state of one caller only.
OneCallerChanged ==
    \E t \in Threads :
        \A u \in Threads \ {t} :
            /\ pc'[u] = pc[u]
            /\ op'[u] = op[u]
            /\ locals'[u] = locals[u]
            /\ out'[u] = out[u]
            /\ ret'[u] = ret[u]
            /\ packed'[u] = packed[u]

\* C10 (statelessness and determinism): under any interleaving of the calls
\* of two callers, calls of the same function on the same arguments agree in
\* result and output whatever went before them, a step of one caller changes
\* nothing of the other, and verify leaves its image unchanged.
C10_Stateless == []Deterministic /\ [][ImageUntouched /\ OneCallerChanged]_vars

\* Both callers have verified the same image, one of them holding a packed
\* image of its own and the other none.
C10_Witness ==
    \E t, u \in Threads :
        /\ t # u
        /\ VerifyDone(t) /\ VerifyDone(u)
        /\ locals[t].image = GoldenImage
        /\ locals[u].image = GoldenImage
        /\ PackedOk(t)
        /\ PackedArgs(t).raw.data = <<1>>
        /\ packed[u] = << >>
        /\ ret[t] = Return(TRUE)

=============================================================================
